---- MODULE Spec2Model ----
(***************************************************************************)
(* Onboarding CLI agent (src/src/index.ts, with the enrich-only revision   *)
(* of the same shell in chatbot-ui/components/ai-elements/loader.tsx):     *)
(* the session store, the interactive shell and the turn orchestrator      *)
(* sendAndStream, driven against a nondeterministic provider, file system  *)
(* and enrichment upstream.                                                *)
(*                                                                         *)
(* Strings are sequences of one-character strings, so that trim() and      *)
(* toLowerCase() are computed and not assumed.  undefined and '' are both  *)
(* the empty sequence wherever the code only tests truthiness.             *)
(***************************************************************************)
EXTENDS Integers, Sequences, FiniteSets, TLC

VARIABLES
    variant,        \* which revision of the shell runs: "cli" | "enrichOnly"
    env,            \* process.env: OPENAI_API_KEY, CONVERSATION_ID, MIXRANK_KEY
    file,           \* CONVO_FILE on disk: [exists, content]
    nConv,          \* conversations the provider has created in this run
    pc,             \* position of the process
    conversationId, \* main's local variable
    lastResolve,    \* what the last ensureConversationId call did
    shellOut,       \* the last line the shell printed: [kind, id]
    nTurns,         \* turns started
    request,        \* sendAndStream's request object
    inFlight,       \* the request awaiting its response, kind "none" when idle
    turnLog,        \* requests the current turn has sent: [opens, followUps]
    unanswered,     \* provider side: call ids of the last response received
    usedWeb,        \* sendAndStream's local
    nEvents,        \* stream events consumed from the current stream
    arrived,        \* text deltas the current stream delivered, in order
    stdout,         \* text written while the current stream is consumed, in order
    final,          \* the finalized streamed response: [id, output]
    fnCalls,        \* sendAndStream's fnCalls array
    callIdx,        \* position of the tool loop in fnCalls
    outputs,        \* sendAndStream's outputs array
    turnResult,     \* how the last sendAndStream call ended: [status, id]
    sysPrompts,     \* provider side: the handles the system prompt was delivered to
    fnIn,           \* the arguments of a function applied on its own
    fnOut,          \* what that application returned
    user            \* main's `user`: the line the shell read last

vars == <<variant, env, file, nConv, pc, conversationId, lastResolve,
          shellOut, nTurns, request, inFlight, turnLog, unanswered, usedWeb,
          nEvents, arrived, stdout, final, fnCalls, callIdx, outputs,
          turnResult, sysPrompts, fnIn, fnOut, user>>

\* what a step outside ensureConversationId leaves alone
storeVars == <<file, nConv, conversationId, lastResolve, sysPrompts>>
\* the locals of sendAndStream
localVars == <<request, usedWeb, nEvents, arrived, stdout, final, fnCalls,
               callIdx, outputs>>

----------------------------------------------------------------------------
(* Bounds of the exploration *)

MaxConvs  == 2   \* conversations the provider creates per run
MaxTurns  == 2   \* conversational turns per run
MaxEvents == 2   \* stream events per turn
MaxItems  == 2   \* output items per response
MaxSections   == 2   \* sections of an onboarding schema
MaxDatapoints == 2   \* datapoints of a section

----------------------------------------------------------------------------
(* Strings *)

Digit(n) == <<"0", "1", "2", "3", "4", "5", "6", "7", "8", "9">>[n + 1]

RECURSIVE TrimLeft(_)
TrimLeft(s) == IF s # <<>> /\ Head(s) = " " THEN TrimLeft(Tail(s)) ELSE s

RECURSIVE TrimRight(_)
TrimRight(s) ==
    IF s # <<>> /\ s[Len(s)] = " " THEN TrimRight(SubSeq(s, 1, Len(s) - 1)) ELSE s

\* String.prototype.trim
Trim(s) == TrimRight(TrimLeft(s))

LowerChar(c) ==
    CASE c = "E" -> "e" [] c = "X" -> "x" [] c = "I" -> "i" [] c = "T" -> "t"
      [] c = "R" -> "r" [] c = "S" -> "s" [] c = "D" -> "d" [] c = "H" -> "h"
      [] OTHER -> c

\* String.prototype.toLowerCase
ToLowerCase(s) == [i \in DOMAIN s |-> LowerChar(s[i])]

\* JavaScript truthiness of a string | undefined
Truthy(s) == s # <<>>

----------------------------------------------------------------------------
(* Identifiers the provider hands out.  They are never blank and never     *)
(* equal to an identifier of an earlier run or of the environment.         *)

ConvId(n) == <<"c", Digit(n)>>
StaleId   == <<"s", "t">>
ForcedId  == <<"o", "v">>

NoFile == [exists |-> FALSE, content |-> <<>>]
FileOf(s) == [exists |-> TRUE, content |-> s]

\* What an earlier run, or the user, may have left in CONVO_FILE
InitialFiles == {NoFile, FileOf(StaleId \o <<" ">>), FileOf(<<" ">>)}

\* process.env.CONVERSATION_ID: unset, or a string
Unset == [set |-> FALSE, value |-> <<>>]
EnvOf(s) == [set |-> TRUE, value |-> s]
Overrides == {Unset, EnvOf(<<>>), EnvOf(<<" ">>), EnvOf(<<" ">> \o ForcedId \o <<" ">>)}

----------------------------------------------------------------------------
(* Session store *)

\* loadSavedConversationId: the trimmed content, undefined when the read
\* throws (no file, no permission) or the content is blank
LoadSavedConversationId(f, readFails) ==
    IF ~f.exists \/ readFails THEN <<>> ELSE Trim(f.content)

\* Mutant: the identifier is never written
SaveNothing(f, id, writeFails) == [threw |-> FALSE, file |-> f]

\* Mutant: the file is written without the identifier
SaveEmpty(f, id, writeFails) ==
    IF writeFails THEN [threw |-> TRUE, file |-> f]
    ELSE [threw |-> FALSE, file |-> FileOf(<<>>)]

\* saveConversationId: fs.writeFile, whose rejection is not caught
SaveConversationId(f, id, writeFails) ==
    IF writeFails THEN [threw |-> TRUE, file |-> f]
    ELSE [threw |-> FALSE, file |-> FileOf(id)]

\* deleteSavedConversationId: fs.unlink, every rejection swallowed
DeleteSavedConversationId(f, unlinkFails) ==
    IF f.exists /\ ~unlinkFails THEN NoFile ELSE f

\* if (forcedId && forcedId.trim()) return forcedId.trim();
UsesForced(forced) == forced.set /\ Truthy(forced.value) /\ Truthy(Trim(forced.value))

\* What a call of ensureConversationId did: what it returned (id) or that it
\* threw, which of its steps ran and which rejected, the file and the
\* provider's count afterwards, and the conversations that were created with
\* the system prompt as their first item (prompted).  forgetFailed is filled in by the caller: the
\* unlink that preceded the call was rejected.
Resolved(f, n) ==
    [threw |-> FALSE, id |-> <<>>, file |-> f, nConv |-> n,
     forced |-> FALSE, read |-> FALSE, readFailed |-> FALSE,
     created |-> FALSE, createFailed |-> FALSE,
     wrote |-> FALSE, writeFailed |-> FALSE, fileBefore |-> f,
     forgetFailed |-> FALSE, prompted |-> <<>>]

\* ensureConversationId past its first line: load, else create and save.
\* fails = [read, create, write]: which of its awaits reject.
EnsureFromStore(f, n, fails) ==
    LET existing == LoadSavedConversationId(f, fails.read)
        id       == ConvId(n + 1)
        saved    == SaveConversationId(f, id, fails.write)
        tried    == [Resolved(f, n) EXCEPT !.read = TRUE,
                                           !.readFailed = (~f.exists \/ fails.read)]
    IN  IF Truthy(existing)
          THEN [tried EXCEPT !.id = existing]
        ELSE IF fails.create
          THEN [tried EXCEPT !.threw = TRUE, !.createFailed = TRUE]
        ELSE IF saved.threw
          THEN [tried EXCEPT !.threw = TRUE, !.created = TRUE, !.nConv = n + 1,
                             !.writeFailed = TRUE, !.prompted = <<id>>]
        ELSE [tried EXCEPT !.id = id, !.created = TRUE, !.nConv = n + 1,
                           !.wrote = TRUE, !.file = saved.file, !.prompted = <<id>>]

\* Mutant: the override is ignored
EnsureIgnoringOverride(f, n, forced, fails) == EnsureFromStore(f, n, fails)

\* ensureConversationId on file f with n conversations created so far
EnsureConversationId(f, n, forced, fails) ==
    IF UsesForced(forced)
      THEN [Resolved(f, n) EXCEPT !.id = Trim(forced.value), !.forced = TRUE]
      ELSE EnsureFromStore(f, n, fails)

Fails == [read : BOOLEAN, create : BOOLEAN, write : BOOLEAN]

NoResolve == Resolved(NoFile, 0)

----------------------------------------------------------------------------
(* Enrichment client (mixrank-enricher.ts) *)

\* String.prototype.includes('@')
HasAt(s) == \E i \in DOMAIN s : s[i] = "@"

GoodEmail == <<"a", "@", "b">>
NoAtEmail == <<"a", "b">>
Emails == {<<>>, NoAtEmail, GoodEmail, <<"@">>}

\* A credential: options.apiKey or process.env.MIXRANK_KEY, <<>> when absent
NoKey  == <<>>
OptKey == <<"o", "k">>
EnvKey == <<"e", "k">>

\* A JavaScript value read from the body: its type and what String() makes of it
JsVal(t, str) == [t |-> t, str |-> str]
Undefined == JsVal("undefined", "undefined")
JsTruthy(v) ==
    CASE v.t = "undefined" -> FALSE
      [] v.t = "string" -> v.str # ""
      [] v.t = "number" -> v.str \notin {"0", "NaN"}
      [] OTHER -> TRUE
JsString(v) == v.str

\* the values the `error` member of a JSON body may have
BodyErrors == {Undefined, JsVal("string", ""), JsVal("string", "boom"),
               JsVal("number", "0"), JsVal("number", "7")}

\* The person object of a 200 body.  A member that is there holds a text that
\* names it, a member that is not (or is '') is <<>>.  The members of the
\* nested objects name, linkedin and company are spelled with their path.
\*   company     "none", "string" (company is a text, companyStr) or "object"
\*   positions   linkedin.positions, a list of [is_current, title]
\*   industries  company.industries: [isArray, list of [is_primary, name]]
FlatMembers == {"full_name", "first_name", "last_name", "title", "job_title",
                "current_company", "linkedin_url", "profile_url", "location",
                "city", "country", "industry"}
NameMembers == {"name.full", "name.first", "name.last"}
LinkedinMembers == {"linkedin.title", "linkedin.headline", "linkedin.org",
                    "linkedin.url", "linkedin.location.text", "linkedin.industry"}
CompanyMembers == {"company.name", "company.address.city", "company.address.country"}
TextMembers == FlatMembers \cup NameMembers \cup LinkedinMembers \cup CompanyMembers

NoIndustries == [isArray |-> FALSE, list |-> <<>>]

\* the person with the text members of `present` and nothing else
Person(present) ==
    [text |-> [m \in TextMembers |-> IF m \in present THEN <<m>> ELSE <<>>],
     company |-> "none", positions |-> <<>>, industries |-> NoIndustries]

NoPerson == Person({})

PositionLists ==
    {<<>>,
     <<[is_current |-> FALSE, title |-> <<"positions[0].title">>]>>,
     <<[is_current |-> FALSE, title |-> <<"positions[0].title">>],
       [is_current |-> TRUE, title |-> <<"positions[1].title">>]>>,
     <<[is_current |-> FALSE, title |-> <<"positions[0].title">>],
       [is_current |-> TRUE, title |-> <<>>]>>}

IndustryLists ==
    {NoIndustries,
     [isArray |-> TRUE, list |-> <<>>],
     [isArray |-> TRUE,
      list |-> <<[is_primary |-> FALSE, name |-> <<"industries[0].name">>]>>],
     [isArray |-> TRUE,
      list |-> <<[is_primary |-> FALSE, name |-> <<"industries[0].name">>],
                 [is_primary |-> TRUE, name |-> <<"industries[1].name">>]>>],
     [isArray |-> TRUE,
      list |-> <<[is_primary |-> FALSE, name |-> <<"industries[0].name">>],
                 [is_primary |-> TRUE, name |-> <<>>]>>]}

\* What the upstream does with one GET.
\*   kind    "response": the headers arrive; "reject": fetch rejects (DNS,
\*           connection reset); "timeout": the timer aborts fetch first
\*   status  the HTTP status of the response
\*   isJson  content-type includes application/json
\*   read    how reading the body ends: "ok", "fail" (the connection breaks)
\*           or "timeout" (the timer aborts the read)
\*   parses  the body text is JSON
\*   error   the `error` member of the parsed body
\*   wrapped the parsed body is {results: [person]} and not the person
\*   person  the person object of the parsed body
Upstream(kind, status, isJson, read, parses, error) ==
    [kind |-> kind, status |-> status, isJson |-> isJson, read |-> read,
     parses |-> parses, error |-> error, wrapped |-> FALSE, person |-> NoPerson]

Statuses == {200, 202, 401, 403, 404, 429, 500}

AllUpstreams ==
    {Upstream("response", st, j, r, p, e) :
        st \in Statuses, j \in BOOLEAN, r \in {"ok", "fail", "timeout"},
        p \in BOOLEAN, e \in BodyErrors}
    \cup {Upstream(k, 0, FALSE, "ok", FALSE, Undefined) : k \in {"reject", "timeout"}}

\* the upstream behaviours the shell is run against
Upstreams == {Upstream("response", 200, TRUE, "ok", TRUE, Undefined),
              Upstream("response", 429, TRUE, "ok", TRUE, Undefined),
              Upstream("timeout", 0, FALSE, "ok", FALSE, Undefined)}

\* err.message of what fetch, res.text() or the abort throws
AbortMessage == "This operation was aborted"
FetchMessage == "fetch failed"
ReadMessage  == "terminated"

\* A result object: `error` is "" where the code sets none, `data` is the body
\* of a 200 response; fetched records that fetch was called (not a member)
NoEnriched == [name |-> <<>>, title |-> <<>>, company |-> <<>>,
               linkedinUrl |-> <<>>, location |-> <<>>, industry |-> <<>>]

NoBody == [kind |-> "none", error |-> Undefined, wrapped |-> FALSE, person |-> NoPerson]

Result(email, status, error) ==
    [email |-> email, status |-> status, error |-> error,
     data |-> NoBody, enriched |-> NoEnriched, fetched |-> FALSE]

\* const body = isJson ? await res.json().catch(() => ({})) : await res.text()
\* for a body that is read to its end or, being JSON, need not be
Body(up) ==
    IF up.isJson
      THEN IF up.read = "ok" /\ up.parses
             THEN [kind |-> "json", error |-> up.error, wrapped |-> up.wrapped,
                   person |-> up.person]
             ELSE [NoBody EXCEPT !.kind = "json"]
      ELSE [NoBody EXCEPT !.kind = "text"]

\* a || b on texts
Or(a, b) == IF Truthy(a) THEN a ELSE b

\* Mutant: the names are joined without the blank
JoinNamesTight(first, last) == first \o last

\* [first, last].filter(Boolean).join(' ')
JoinNames(first, last) ==
    IF Truthy(first) /\ Truthy(last) THEN first \o <<" ">> \o last
    ELSE Or(first, last)

\* `${city}, ${country}`
CityCountry(city, country) == city \o <<", ">> \o country

\* a member of data.company, which is there only when company is an object
CompanyMember(d, m) == IF d.company = "object" THEN d.text[m] ELSE <<>>

\* data.company where a text is wanted: the text, or String() of the object
CompanyText(d) ==
    CASE d.company = "string" -> <<"company">>
      [] d.company = "object" -> <<"[object Object]">>
      [] OTHER -> <<>>

\* positions.find(p => p?.is_current)?.title || positions[0]?.title
TopPositionTitle(positions) ==
    LET current == {i \in DOMAIN positions : positions[i].is_current}
        first   == CHOOSE i \in current : \A j \in current : i <= j
    IN  IF positions = <<>> THEN <<>>
        ELSE Or(IF current = {} THEN <<>> ELSE positions[first].title,
                positions[1].title)

\* (industries.find(i => i?.is_primary) || industries[0])?.name
PrimaryIndustry(d) ==
    LET list    == d.industries.list
        primary == {i \in DOMAIN list : list[i].is_primary}
        first   == CHOOSE i \in primary : \A j \in primary : i <= j
    IN  IF d.company # "object" \/ ~d.industries.isArray \/ list = <<>> THEN <<>>
        ELSE IF primary # {} THEN list[first].name
        ELSE list[1].name

\* extractEnrichedFields of mixrank-enricher.ts, for data that is an object
ExtractEnrichedFields(d) ==
    LET t == d.text
        nameFull == Or(t["name.full"], t["full_name"])
        first    == Or(t["name.first"], t["first_name"])
        last     == Or(t["name.last"], t["last_name"])
        liTitle  == Or(t["linkedin.title"], t["linkedin.headline"])
        top      == TopPositionTitle(d.positions)
        liLoc    == t["linkedin.location.text"]
        coCity   == CompanyMember(d, "company.address.city")
        coCountry == CompanyMember(d, "company.address.country")
        person   == Or(t["location"],
                       IF Truthy(t["city"]) /\ Truthy(t["country"])
                         THEN CityCountry(t["city"], t["country"]) ELSE <<>>)
        primary  == PrimaryIndustry(d)
    IN  [name |-> IF Truthy(nameFull) THEN nameFull
                  ELSE IF Truthy(first) \/ Truthy(last) THEN JoinNames(first, last)
                  ELSE <<>>,
         title |-> Or(liTitle, Or(t["title"], Or(t["job_title"], top))),
         company |-> Or(CompanyMember(d, "company.name"),
                        Or(t["linkedin.org"], Or(t["current_company"], CompanyText(d)))),
         linkedinUrl |-> Or(t["linkedin.url"], Or(t["linkedin_url"], t["profile_url"])),
         location |-> IF Truthy(liLoc) THEN liLoc
                      ELSE IF Truthy(coCity) /\ Truthy(coCountry)
                        THEN CityCountry(coCity, coCountry)
                      ELSE person,
         industry |-> Or(primary, Or(t["linkedin.industry"], t["industry"]))]

\* extractEnrichedFields of the compiled module (mixrank-enricher.d.ts)
ExtractCompiled(d) ==
    LET t == d.text
    IN  [name |-> IF Truthy(t["first_name"]) /\ Truthy(t["last_name"])
                    THEN t["first_name"] \o <<" ">> \o t["last_name"]
                  ELSE t["full_name"],
         title |-> Or(t["title"], t["job_title"]),
         company |-> Or(CompanyText(d), t["current_company"]),
         linkedinUrl |-> Or(t["linkedin_url"], t["profile_url"]),
         location |-> Or(t["location"],
                         IF Truthy(t["city"]) /\ Truthy(t["country"])
                           THEN CityCountry(t["city"], t["country"]) ELSE <<>>),
         industry |-> t["industry"]]

\* the `enriched` member of a 200 result.  The source takes results[0] of a
\* wrapped body; the compiled module reads the body as it is.  A body that is
\* a text, or {} for want of JSON, has no member to extract.
Enriched(version, body) ==
    IF body.kind # "json" THEN NoEnriched
    ELSE IF version = "ts" THEN ExtractEnrichedFields(body.person)
    ELSE IF body.wrapped THEN NoEnriched
    ELSE ExtractCompiled(body.person)

\* Mutant: an address is not looked at
ValidEmailAlways(email) == TRUE

\* `!email || !email.includes('@')`, negated
ValidEmail(email) == Truthy(email) /\ HasAt(email)

\* Mutant: a credential is always found
ApiKeyDefault(optKey, envKey) == IF Truthy(optKey) THEN optKey ELSE EnvKey

\* options.apiKey || process.env.MIXRANK_KEY || ''
ApiKey(optKey, envKey) ==
    IF Truthy(optKey) THEN optKey ELSE IF Truthy(envKey) THEN envKey ELSE <<>>

\* Mutant: every failure status reads its message from the body
StatusMessageFromBody(status, body) ==
    IF body.kind = "json" /\ JsTruthy(body.error) THEN JsString(body.error)
    ELSE "Unexpected error"

\* the message of a response that is not 200
StatusMessage(status, body) ==
    CASE status = 202 -> "Queued. Try again later."
      [] status = 404 -> "Not found"
      [] status \in {401, 403} -> "Unauthorized. Check API key."
      [] status = 429 -> "Rate limited. Slow down or try later."
      [] OTHER -> IF body.kind = "json" /\ JsTruthy(body.error)
                    THEN JsString(body.error) ELSE "Unexpected error"

\* enrichEmailWithMixRank(email, {apiKey: optKey}) of the source ("ts") or of
\* the compiled module, with MIXRANK_KEY = envKey, against an upstream that
\* behaves as up
EnrichEmailOf(version, email, optKey, envKey, up) ==
    IF ~ValidEmail(email)
      THEN Result(email, 400, "Invalid email format")
    ELSE IF ~Truthy(ApiKey(optKey, envKey))
      THEN Result(email, 401, "Missing MixRank API key (MIXRANK_KEY)")
    ELSE IF up.kind = "reject"
      THEN [Result(email, 0, FetchMessage) EXCEPT !.fetched = TRUE]
    ELSE IF up.kind = "timeout"
      THEN [Result(email, 0, AbortMessage) EXCEPT !.fetched = TRUE]
    ELSE IF ~up.isJson /\ up.read # "ok"
      THEN [Result(email, 0, IF up.read = "timeout" THEN AbortMessage ELSE ReadMessage)
              EXCEPT !.fetched = TRUE]
    ELSE IF up.status = 200
      THEN [Result(email, 200, "") EXCEPT !.data = Body(up),
                                          !.enriched = Enriched(version, Body(up)),
                                          !.fetched = TRUE]
    ELSE [Result(email, up.status, StatusMessage(up.status, Body(up)))
            EXCEPT !.fetched = TRUE]

\* the module index.ts imports: '../mixrank-enricher', the source
EnrichEmailWithMixRank(email, optKey, envKey, up) ==
    EnrichEmailOf("ts", email, optKey, envKey, up)

----------------------------------------------------------------------------
(* The provider's responses *)

\* The argument payload of a function call: a string that JSON.parse accepts
\* or not, holding an email member or not, a string or not
ArgsOf(json, has, str, email) ==
    [json |-> json, hasEmail |-> has, isString |-> str, email |-> email]
EmptyArgs == ArgsOf(TRUE, FALSE, FALSE, <<>>)
\* the payloads the model sends with an enrich call: one that does not parse
\* and one that holds an address
EnrichArgs == {ArgsOf(FALSE, FALSE, FALSE, <<>>), ArgsOf(TRUE, TRUE, TRUE, GoodEmail)}

\* every kind of payload: not JSON, no email member, an email member that is
\* the number 7, and email members that are strings
AllEnrichArgs ==
    {ArgsOf(FALSE, FALSE, FALSE, <<>>), EmptyArgs, ArgsOf(TRUE, TRUE, FALSE, <<"7">>)}
    \cup {ArgsOf(TRUE, TRUE, TRUE, e) : e \in Emails}

\* Identifiers of responses and of the calls in them: turn t, "s" for the
\* streamed response and "f" for the follow-up, position i in the output
RespId(t, src) == <<"r", Digit(t), src>>
CallId(t, src, i) == <<"k", Digit(t), src, Digit(i)>>

\* Every output item has an item id; a function call has a call_id besides
ItemId(k) == <<"i">> \o k
MessageItem(k) == [type |-> "message", name |-> "", id |-> ItemId(k),
                   call_id |-> <<>>, arguments |-> EmptyArgs]
WebItem(k) == [type |-> "web_search_call", name |-> "", id |-> ItemId(k),
               call_id |-> <<>>, arguments |-> EmptyArgs]
CallItem(name, k, args) ==
    [type |-> "function_call", name |-> name, id |-> ItemId(k), call_id |-> k,
     arguments |-> args]

\* The items a response to a request declaring `tools` may hold at a position
\* whose call identifier is k: the model calls only what was declared
ItemsAt(tools, k) ==
    {MessageItem(k)}
    \cup (IF "web_search" \in tools THEN {WebItem(k)} ELSE {})
    \cup (IF "enrich" \in tools THEN {CallItem("enrich", k, a) : a \in EnrichArgs} ELSE {})
    \cup {CallItem(n, k, EmptyArgs) : n \in tools \cap {"google_auth", "stripe"}}

RECURSIVE OutputsOfLen(_, _, _, _)
OutputsOfLen(tools, t, src, n) ==
    IF n = 0 THEN {<<>>}
    ELSE {Append(o, it) : o \in OutputsOfLen(tools, t, src, n - 1),
                          it \in ItemsAt(tools, CallId(t, src, n))}

\* Every output array a response may carry
Outputs(tools, t, src) == UNION {OutputsOfLen(tools, t, src, n) : n \in 0..MaxItems}

\* A follow-up response, of which the client reads the id and the text: its
\* id and the call identifiers of the function calls its output holds.  It
\* answers a request declaring `tools`, so it may call any of them again.
FollowUps(tools, t) ==
    {[id |-> RespId(t, "f"), invocations |-> ids] :
        ids \in IF tools \cap {"enrich", "google_auth", "stripe"} = {} THEN {{}}
                ELSE SUBSET {CallId(t, "f", i) : i \in 1..MaxItems}}

\* The call identifiers of the tool invocations of an output array
InvocationIds(out) == {out[i].call_id : i \in {j \in DOMAIN out : out[j].type = "function_call"}}
NumInvocations(out) == Cardinality({j \in DOMAIN out : out[j].type = "function_call"})

----------------------------------------------------------------------------
(* sendAndStream: the request objects *)

DeclaredTools(v) ==
    IF v = "cli" THEN {"web_search", "enrich", "google_auth", "stripe"}
    ELSE {"web_search", "enrich"}

\* the names the tool loop looks for in final.output
HandledNames(v) == IF v = "cli" THEN {"enrich", "google_auth", "stripe"} ELSE {"enrich"}

NoRequest == [kind |-> "none", instructions |-> FALSE, conversation |-> <<>>,
              effort |-> "", tools |-> {}, tool_choice |-> FALSE,
              include |-> FALSE, results |-> <<>>]

\* const request = {...}
BuildRequest(v, cid) ==
    [kind |-> "user", instructions |-> ~Truthy(cid), conversation |-> cid,
     effort |-> "low", tools |-> DeclaredTools(v), tool_choice |-> TRUE,
     include |-> TRUE, results |-> <<>>]

\* Mutant: only the rejected declaration is removed
FallbackKeepsOtherTools(req) ==
    [req EXCEPT !.tools = @ \ {"web_search"}, !.effort = "minimal"]

\* the catch of responses.stream: delete tools, tool_choice, include and
\* lower the effort
FallbackRequest(req) ==
    [req EXCEPT !.tools = {}, !.tool_choice = FALSE, !.include = FALSE,
                !.effort = "minimal"]

\* Mutant: the follow-up opens a context of its own
FollowUpWithoutHandle(req, cid, outs) ==
    [kind |-> "followup", instructions |-> TRUE, conversation |-> <<>>,
     effort |-> "", tools |-> req.tools, tool_choice |-> TRUE,
     include |-> req.include, results |-> outs]

\* the argument of responses.create in the tool branch
FollowUpRequest(req, cid, outs) ==
    [kind |-> "followup", instructions |-> ~Truthy(cid), conversation |-> cid,
     effort |-> "", tools |-> req.tools, tool_choice |-> TRUE,
     include |-> req.include, results |-> outs]

ResultIds(req) == {req.results[i].call_id : i \in DOMAIN req.results}

\* the handles a request delivers the system prompt to: its own conversation
\* when it carries `instructions`
Delivered(req) == IF req.instructions THEN <<req.conversation>> ELSE <<>>

----------------------------------------------------------------------------
(* sendAndStream: the tool loop *)

RECURSIVE SelectSeq2(_, _, _)
SelectSeq2(out, v, i) ==
    IF i > Len(out) THEN <<>>
    ELSE IF out[i].type = "function_call" /\ out[i].name \in HandledNames(v)
      THEN <<out[i]>> \o SelectSeq2(out, v, i + 1)
    ELSE SelectSeq2(out, v, i + 1)

\* items.filter(it => it.type === 'function_call' && [...].includes(it.name))
FilterFnCalls(out, v) == SelectSeq2(out, v, 1)

\* Mutant: the type of the email member is not tested
ParseEmailUntyped(args) ==
    IF args.json /\ args.hasEmail THEN args.email ELSE <<>>

\* JSON.parse(call.arguments || '{}') and the typeof test, inside try/catch
ParseEmail(args) ==
    IF args.json /\ args.hasEmail /\ args.isString THEN args.email ELSE <<>>

\* `email ? await enrichEmailWithMixRank(email) : {...}`: the client is called
CallsClient(call) == call.name = "enrich" /\ Truthy(ParseEmail(call.arguments))

\* call.call_id || call.id || ''
CallIdOf(call) ==
    IF Truthy(call.call_id) THEN call.call_id
    ELSE IF Truthy(call.id) THEN call.id ELSE <<>>

\* JSON.stringify of a result object: the text, represented by the members it
\* spells out (fetched is not a member of the object)
JsonStringify(r) == [json |-> [k \in DOMAIN r \ {"fetched"} |-> r[k]]]

\* { email, status: 400, error: 'Missing email' }
MissingEmail(email) == Result(email, 400, "Missing email")

\* the result objects of the mocked tools
MockResult(msg) == [status |-> 200, message |-> msg]

FunctionCallOutput(call, result) ==
    [type |-> "function_call_output", call_id |-> CallIdOf(call),
     output |-> JsonStringify(result)]

\* Mutant: the loop of the enrich-only revision under the filter of the newer
ToolOutputEnrichOnly(call, v, envKey, up) ==
    LET email == ParseEmail(call.arguments)
        res   == IF CallsClient(call) THEN EnrichEmailWithMixRank(email, NoKey, envKey, up)
                 ELSE MissingEmail(email)
    IN  IF call.name = "enrich" THEN <<FunctionCallOutput(call, res)>> ELSE <<>>

\* The function_call_output entries pushed for one call: one for a name the
\* revision handles, none otherwise
ToolOutput(call, v, envKey, up) ==
    LET email == ParseEmail(call.arguments)
        res   == IF CallsClient(call) THEN EnrichEmailWithMixRank(email, NoKey, envKey, up)
                 ELSE MissingEmail(email)
    IN  IF call.name = "enrich"
          THEN <<FunctionCallOutput(call, res)>>
        ELSE IF v = "cli" /\ call.name = "google_auth"
          THEN <<FunctionCallOutput(call, MockResult("Authentication complete"))>>
        ELSE IF v = "cli" /\ call.name = "stripe"
          THEN <<FunctionCallOutput(call, MockResult("Payment received"))>>
        ELSE <<>>

----------------------------------------------------------------------------
(* The interactive shell: what a line of input is *)

LineExit      == <<"e", "x", "i", "t">>
LineExitLoud  == <<" ", "E", "X", "I", "T", " ">>
LineReset     == <<"/", "r", "e", "s", "e", "t">>
LineResetBare == <<"R", "e", "s", "e", "t">>
LineId        == <<"/", "i", "d">>
LineHi        == <<"h", "i">>

Lines == {<<>>, LineExit, LineExitLoud, LineReset, LineResetBare, LineId, LineHi}

\* Mutant: the line is compared as it was typed
ClassifyAsTyped(line) ==
    IF ~Truthy(line) \/ line = LineExit THEN "exit"
    ELSE IF line = LineReset \/ line = ToLowerCase(LineResetBare) THEN "reset"
    ELSE IF line = LineId THEN "id"
    ELSE "turn"

\* the tests of the while loop, in their order
Classify(line) ==
    LET lower == ToLowerCase(Trim(line))
    IN  IF ~Truthy(line) \/ lower = LineExit THEN "exit"
        ELSE IF lower = LineReset \/ lower = ToLowerCase(LineResetBare) THEN "reset"
        ELSE IF lower = LineId THEN "id"
        ELSE "turn"

\* `const user = readlineSync.question(...)`: the line read last, if any
NoLine == [read |-> FALSE, line |-> <<>>]
Typed(line) == [read |-> TRUE, line |-> line]

Said(kind, id) == [kind |-> kind, id |-> id]

NoFinal == [id |-> <<>>, output |-> <<>>]
NoTurn  == [status |-> "none", id |-> <<>>]
NoLog   == [opens |-> 0, followUps |-> 0, streamError |-> FALSE, followFailed |-> FALSE]

----------------------------------------------------------------------------
(* The state after the module is loaded *)

Fresh ==
    /\ variant \in {"cli", "enrichOnly"}
    /\ env \in [apiKey : BOOLEAN, override : Overrides, mixrankKey : BOOLEAN]
    /\ file \in InitialFiles
    /\ nConv = 0
    /\ conversationId = <<>>
    /\ lastResolve = NoResolve
    /\ shellOut = Said("none", <<>>)
    /\ nTurns = 0
    /\ request = NoRequest
    /\ inFlight = NoRequest
    /\ turnLog = NoLog
    /\ unanswered = {}
    /\ usedWeb = FALSE
    /\ nEvents = 0
    /\ arrived = <<>>
    /\ stdout = <<>>
    /\ final = NoFinal
    /\ fnCalls = <<>>
    /\ callIdx = 0
    /\ outputs = <<>>
    /\ turnResult = NoTurn
    /\ sysPrompts = <<>>
    /\ user = NoLine

\* no function is applied on its own while the program runs
NoCall == [fn |-> "none"]

Init == Fresh /\ pc = "boot" /\ fnIn = NoCall /\ fnOut = NoCall

----------------------------------------------------------------------------
(* Startup and the commands of the shell *)

\* new OpenAI({apiKey}) and the check of process.env.OPENAI_API_KEY
Boot ==
    /\ pc = "boot"
    /\ IF env.apiKey
         THEN pc' = "main" /\ UNCHANGED shellOut
         ELSE pc' = "exit_nokey" /\ shellOut' = Said("missingKey", <<>>)
    /\ UNCHANGED <<user, fnIn, fnOut, variant, env, storeVars, nTurns, inFlight, turnLog, unanswered,
                   localVars, turnResult>>

\* process.env.MIXRANK_KEY
MixrankKey(e) == IF e.mixrankKey THEN EnvKey ELSE NoKey

\* `!process.env.CONVERSATION_ID`
NoOverride(e) == ~(e.override.set /\ Truthy(e.override.value))

\* main, up to the loop: forget unless CONVERSATION_ID is set, then resolve.
\* A rejection of ensureConversationId rejects main: 'Fatal error', exit(1).
Startup ==
    /\ pc = "main"
    /\ \E unlinkFails \in BOOLEAN, fails \in Fails :
         LET f1 == IF NoOverride(env) THEN DeleteSavedConversationId(file, unlinkFails)
                   ELSE file
             r  == EnsureConversationId(f1, nConv, env.override, fails)
         IN  /\ file' = r.file
             /\ nConv' = r.nConv
             /\ sysPrompts' = sysPrompts \o r.prompted
             /\ lastResolve' = [r EXCEPT !.forgetFailed =
                                  NoOverride(env) /\ file.exists /\ f1.exists]
             /\ IF r.threw
                  THEN /\ pc' = "exit_fatal"
                       /\ shellOut' = Said("fatal", <<>>)
                       /\ UNCHANGED conversationId
                  ELSE /\ pc' = "prompt"
                       /\ conversationId' = r.id
                       /\ shellOut' = Said("using", r.id)
    /\ UNCHANGED <<user, fnIn, fnOut, variant, env, nTurns, inFlight, turnLog, unanswered,
                   localVars, turnResult>>

\* empty line or exit: break
CmdExit ==
    /\ pc = "prompt"
    /\ \E line \in Lines : Classify(line) = "exit" /\ user' = Typed(line)
    /\ pc' = "exit_ok"
    /\ UNCHANGED <<fnIn, fnOut, variant, env, storeVars, shellOut, nTurns, inFlight, turnLog,
                   unanswered, localVars, turnResult>>

\* /reset: forget, resolve again with the same CONVERSATION_ID, continue.
\* Nothing catches a rejection here either.
CmdReset ==
    /\ pc = "prompt"
    /\ \E line \in Lines : Classify(line) = "reset" /\ user' = Typed(line)
    /\ \E unlinkFails \in BOOLEAN, fails \in Fails :
         LET f1 == DeleteSavedConversationId(file, unlinkFails)
             r  == EnsureConversationId(f1, nConv, env.override, fails)
         IN  /\ r.nConv <= MaxConvs
             /\ file' = r.file
             /\ nConv' = r.nConv
             /\ sysPrompts' = sysPrompts \o r.prompted
             /\ lastResolve' = [r EXCEPT !.forgetFailed = file.exists /\ f1.exists]
             /\ IF r.threw
                  THEN /\ pc' = "exit_fatal"
                       /\ shellOut' = Said("fatal", <<>>)
                       /\ UNCHANGED <<conversationId, unanswered>>
                  ELSE /\ pc' = "prompt"
                       /\ conversationId' = r.id
                       /\ shellOut' = Said("started", r.id)
                       /\ unanswered' = IF r.id = conversationId THEN unanswered ELSE {}
    /\ UNCHANGED <<fnIn, fnOut, variant, env, nTurns, inFlight, turnLog, localVars, turnResult>>

\* Mutant: /id also forgets the persisted handle
CmdIdForgets ==
    /\ pc = "prompt"
    /\ \E line \in Lines : Classify(line) = "id" /\ user' = Typed(line)
    /\ shellOut' = Said("id", conversationId)
    /\ file' = NoFile
    /\ UNCHANGED <<fnIn, fnOut, variant, env, nConv, conversationId, lastResolve,
                   sysPrompts, pc, nTurns, inFlight, turnLog, unanswered, localVars,
                   turnResult>>

\* /id: print the handle, continue
CmdId ==
    /\ pc = "prompt"
    /\ \E line \in Lines : Classify(line) = "id" /\ user' = Typed(line)
    /\ shellOut' = Said("id", conversationId)
    /\ UNCHANGED <<fnIn, fnOut, variant, env, storeVars, pc, nTurns, inFlight, turnLog,
                   unanswered, localVars, turnResult>>

----------------------------------------------------------------------------
(* One turn: sendAndStream under main's try/catch *)

ClearLocals ==
    /\ request' = NoRequest
    /\ usedWeb' = FALSE
    /\ nEvents' = 0
    /\ arrived' = <<>>
    /\ stdout' = <<>>
    /\ final' = NoFinal
    /\ fnCalls' = <<>>
    /\ callIdx' = 0
    /\ outputs' = <<>>

Returned(id) == [status |-> "returned", id |-> id]
Threw == [status |-> "threw", id |-> <<>>]

\* Mutant: the shell goes back to the prompt while the request is awaited
EndTurnNotAwaited(res) ==
    /\ pc' = "prompt"
    /\ turnResult' = res
    /\ shellOut' = Said(IF res.status = "threw" THEN "error" ELSE "newline", <<>>)
    /\ inFlight' = inFlight
    /\ ClearLocals

\* sendAndStream ends: on a return main writes the newline, on a throw main's
\* catch prints the error; either way the loop goes on
EndTurn(res) ==
    /\ pc' = "prompt"
    /\ turnResult' = res
    /\ shellOut' = Said(IF res.status = "threw" THEN "error" ELSE "newline", <<>>)
    /\ inFlight' = NoRequest
    /\ ClearLocals

\* Mutant: instead of returning, sendAndStream opens the stream again
ReturnAndReopen(id) ==
    /\ pc' = "opening"
    /\ inFlight' = request
    /\ UNCHANGED <<turnResult, shellOut, localVars>>

Return(id) == EndTurn(Returned(id))
Throw == EndTurn(Threw)

\* Mutant: the error event is not recognised
ThrowsOnNothing(ev) == FALSE

\* `else if (type === 'error') throw new Error(msg)`
ThrowsOn(ev) == ev.type = "error"

\* Mutant: no outer catch, the rejection leaves sendAndStream
AfterToolErrorRethrow(id) == Threw

\* the outer `try { ... } catch {}` around the tool branch, then `return id`
AfterToolError(id) == Returned(id)

\* Mutant: the id of the streamed response is returned whatever followed
FollowIdIgnored(follow, id) == id

\* `return (follow?.id) || id`
FollowId(follow, id) == IF Truthy(follow.id) THEN follow.id ELSE id

\* any other line: build the request and call responses.stream
StartTurn ==
    /\ pc = "prompt"
    /\ nTurns < MaxTurns
    /\ \E line \in Lines : Classify(line) = "turn" /\ user' = Typed(line)
    /\ nTurns' = nTurns + 1
    /\ request' = BuildRequest(variant, conversationId)
    /\ inFlight' = BuildRequest(variant, conversationId)
    /\ turnLog' = [NoLog EXCEPT !.opens = 1]
    /\ unanswered' = {}
    /\ turnResult' = [status |-> "running", id |-> <<>>]
    /\ shellOut' = Said("agent", <<>>)
    /\ pc' = "opening"
    /\ sysPrompts' = sysPrompts \o Delivered(BuildRequest(variant, conversationId))
    /\ UNCHANGED <<fnIn, fnOut, variant, env, file, nConv, conversationId, lastResolve,
                   usedWeb, nEvents, arrived, stdout, final, fnCalls, callIdx, outputs>>

\* responses.stream resolves, or rejects naming web_search, or rejects otherwise
StreamOpened ==
    /\ pc = "opening"
    /\ \E outcome \in {"ok", "web_search", "other"} :
         CASE outcome = "ok" ->
                /\ pc' = "streaming"
                /\ UNCHANGED <<request, inFlight, turnLog, unanswered, usedWeb,
                               nEvents, arrived, stdout, final, fnCalls, callIdx,
                               outputs, turnResult, shellOut, sysPrompts>>
           [] outcome = "web_search" ->
                /\ "web_search" \in request.tools
                /\ request' = FallbackRequest(request)
                /\ inFlight' = FallbackRequest(request)
                /\ turnLog' = [turnLog EXCEPT !.opens = @ + 1]
                /\ pc' = "retrying"
                /\ sysPrompts' = sysPrompts \o Delivered(FallbackRequest(request))
                /\ UNCHANGED <<unanswered, usedWeb, nEvents, arrived, stdout, final,
                               fnCalls, callIdx, outputs, turnResult, shellOut>>
           [] outcome = "other" ->
                /\ Throw
                /\ UNCHANGED <<turnLog, unanswered, sysPrompts>>
    /\ UNCHANGED <<user, fnIn, fnOut, variant, env, file, nConv, conversationId, lastResolve,
                   nTurns>>

\* the second responses.stream, in the catch: nothing catches its rejection
RetryOpened ==
    /\ pc = "retrying"
    /\ \E ok \in BOOLEAN :
         IF ok
           THEN /\ pc' = "streaming"
                /\ UNCHANGED <<localVars, inFlight, turnResult, shellOut>>
           ELSE Throw
    /\ UNCHANGED <<user, fnIn, fnOut, variant, env, storeVars, nTurns, turnLog, unanswered>>

\* The events a stream may deliver
EventsOf(tools) ==
    {[type |-> "response.output_text.delta", delta |-> d] : d \in {"x", "y"}}
    \cup {[type |-> "error", delta |-> ""], [type |-> "response.created", delta |-> ""]}
    \cup (IF "web_search" \in tools
            THEN {[type |-> t, delta |-> ""] :
                    t \in {"response.web_search_call.searching",
                           "response.web_search_call.in_progress",
                           "response.web_search_call.completed"}}
            ELSE {})

IsWebEvent(ev) == ev.type \in {"response.web_search_call.searching",
                               "response.web_search_call.in_progress",
                               "response.web_search_call.completed"}

\* one call of process.stdout.write or of console.log
Write(via, text) == [via |-> via, text |-> text]

\* Mutant: the text is kept for later
WrittenAtEnd(ev) ==
    CASE ev.type = "response.web_search_call.searching" ->
           <<Write("console.log", "[web_search] searching...")>>
      [] ev.type = "response.web_search_call.completed" ->
           <<Write("console.log", "[web_search] completed")>>
      [] OTHER -> <<>>

\* what one iteration of the for-await loop writes
Written(ev) ==
    CASE ev.type = "response.web_search_call.searching" ->
           <<Write("console.log", "[web_search] searching...")>>
      [] ev.type = "response.web_search_call.completed" ->
           <<Write("console.log", "[web_search] completed")>>
      [] ev.type = "response.output_text.delta" ->
           <<Write("process.stdout.write", ev.delta)>>
      [] OTHER -> <<>>

\* one iteration of `for await (const event of stream)`
ConsumeEvent ==
    /\ pc = "streaming"
    /\ nEvents < MaxEvents
    /\ \E ev \in EventsOf(request.tools) :
         /\ turnLog' = [turnLog EXCEPT !.streamError = @ \/ ev.type = "error"]
         /\ IF ThrowsOn(ev)
              THEN Throw
              ELSE /\ nEvents' = nEvents + 1
                   /\ usedWeb' = (usedWeb \/ IsWebEvent(ev))
                   /\ stdout' = stdout \o Written(ev)
                   /\ arrived' = IF ev.type = "response.output_text.delta"
                                   THEN Append(arrived, ev.delta) ELSE arrived
                   /\ UNCHANGED <<pc, request, inFlight, final, fnCalls,
                                  callIdx, outputs, turnResult, shellOut>>
    /\ UNCHANGED <<user, fnIn, fnOut, variant, env, storeVars, nTurns, unanswered>>

\* the for-await loop ends with the stream; what it wrote is on the terminal
StreamEnd ==
    /\ pc = "streaming"
    /\ pc' = "finalizing"
    /\ nEvents' = 0
    /\ arrived' = <<>>
    /\ stdout' = <<>>
    /\ UNCHANGED <<user, fnIn, fnOut, variant, env, storeVars, shellOut, nTurns, request, inFlight,
                   turnLog, unanswered, usedWeb, final, fnCalls, callIdx, outputs,
                   turnResult>>

\* finalResponse() resolves or rejects; then the filter of the tool branch
Finalize ==
    /\ pc = "finalizing"
    /\ \E ok \in BOOLEAN :
         IF ~ok
           THEN Throw /\ UNCHANGED unanswered
           ELSE \E out \in Outputs(request.tools, nTurns, "s") :
                  LET calls == FilterFnCalls(out, variant)
                      id    == RespId(nTurns, "s")
                  IN  /\ unanswered' = InvocationIds(out)
                      /\ IF calls = <<>>
                           THEN Return(id)
                           ELSE /\ final' = [id |-> id, output |-> out]
                                /\ fnCalls' = calls
                                /\ callIdx' = 1
                                /\ outputs' = <<>>
                                /\ pc' = "tools"
                                /\ inFlight' = NoRequest
                                /\ usedWeb' = FALSE
                                /\ UNCHANGED <<request, nEvents, arrived, stdout,
                                               turnResult, shellOut>>
    /\ UNCHANGED <<user, fnIn, fnOut, variant, env, storeVars, nTurns, turnLog>>

\* one iteration of `for (const call of fnCalls)`
DispatchTool ==
    /\ pc = "tools"
    /\ callIdx <= Len(fnCalls)
    /\ \E up \in Upstreams :
         outputs' = outputs \o ToolOutput(fnCalls[callIdx], variant, MixrankKey(env), up)
    /\ callIdx' = callIdx + 1
    /\ UNCHANGED <<user, fnIn, fnOut, variant, env, storeVars, pc, shellOut, nTurns, request, inFlight,
                   turnLog, unanswered, usedWeb, nEvents, arrived, stdout, final, fnCalls,
                   turnResult>>

\* after the loop: `if (outputs.length > 0)` responses.create, else return id
SendFollowUp ==
    /\ pc = "tools"
    /\ callIdx > Len(fnCalls)
    /\ IF outputs # <<>>
         THEN /\ inFlight' = FollowUpRequest(request, conversationId, outputs)
              /\ turnLog' = [turnLog EXCEPT !.followUps = @ + 1]
              /\ unanswered' = {}
              /\ pc' = "followup"
              /\ sysPrompts' = sysPrompts
                                  \o Delivered(FollowUpRequest(request, conversationId, outputs))
              /\ UNCHANGED <<localVars, turnResult, shellOut>>
         ELSE /\ Return(final.id)
              /\ UNCHANGED <<turnLog, unanswered, sysPrompts>>
    /\ UNCHANGED <<user, fnIn, fnOut, variant, env, file, nConv, conversationId, lastResolve,
                   nTurns>>

\* responses.create resolves (its text is written at once) or rejects (the
\* outer catch swallows it); either way sendAndStream returns
FollowUpDone ==
    /\ pc = "followup"
    /\ \E ok \in BOOLEAN :
         IF ok
           THEN \E resp \in FollowUps(inFlight.tools, nTurns) :
                  /\ unanswered' = resp.invocations
                  /\ Return(FollowId(resp, final.id))
                  /\ UNCHANGED turnLog
           ELSE /\ EndTurn(AfterToolError(final.id))
                /\ turnLog' = [turnLog EXCEPT !.followFailed = TRUE]
                /\ UNCHANGED unanswered
    /\ UNCHANGED <<user, fnIn, fnOut, variant, env, storeVars, nTurns>>

----------------------------------------------------------------------------

Next ==
    \/ Boot
    \/ Startup
    \/ CmdExit
    \/ CmdReset
    \/ CmdId
    \/ StartTurn
    \/ StreamOpened
    \/ RetryOpened
    \/ ConsumeEvent
    \/ StreamEnd
    \/ Finalize
    \/ DispatchTool
    \/ SendFollowUp
    \/ FollowUpDone

Spec == Init /\ [][Next]_vars

----------------------------------------------------------------------------
(* The session store driven directly: resolve and forget in any order, with  *)
(* the override of the environment                                           *)

StoreInit ==
    /\ Fresh /\ pc = "store" /\ env.apiKey /\ ~env.mixrankKey /\ variant = "cli"
    /\ fnIn = NoCall /\ fnOut = NoCall

\* resolve(): one call of ensureConversationId
StoreResolve ==
    /\ pc = "store"
    /\ nConv < MaxConvs
    /\ \E fails \in Fails :
         LET r == EnsureConversationId(file, nConv, env.override, fails)
         IN  /\ file' = r.file
             /\ nConv' = r.nConv
             /\ sysPrompts' = sysPrompts \o r.prompted
             /\ lastResolve' = r
             /\ conversationId' = IF r.threw THEN conversationId ELSE r.id
             /\ shellOut' = Said(IF r.threw THEN "threw" ELSE "resolved", r.id)
    /\ UNCHANGED <<user, fnIn, fnOut, variant, env, pc, nTurns, inFlight, turnLog, unanswered,
                   localVars, turnResult>>

\* forget(): one call of deleteSavedConversationId
StoreForget ==
    /\ pc = "store"
    /\ \E unlinkFails \in BOOLEAN : file' = DeleteSavedConversationId(file, unlinkFails)
    /\ shellOut' = Said("forgot", <<>>)
    /\ UNCHANGED <<user, fnIn, fnOut, variant, env, pc, nConv, conversationId, lastResolve,
                   sysPrompts, nTurns, inFlight, turnLog, unanswered, localVars, turnResult>>

StoreNext == StoreResolve \/ StoreForget

StoreSpec == StoreInit /\ [][StoreNext]_vars

----------------------------------------------------------------------------
(* Prompt builder: renderOnboarding.  A text is the sequence of its pieces, *)
(* "\n" being the line break.                                               *)

\* dp.options: absent, or an array
NoOptions == [isArray |-> FALSE, list |-> <<>>]
OptionsOf(list) == [isArray |-> TRUE, list |-> list]

Datapoint(k, options) ==
    [name |-> "n" \o k, format |-> "f" \o k, instructions |-> "i" \o k,
     options |-> options]

\* the datapoints of the schemas explored: without options, with an empty
\* list and with two options
Datapoints == {Datapoint("1", NoOptions), Datapoint("2", OptionsOf(<<>>)),
               Datapoint("3", OptionsOf(<<"o1", "o2">>))}

RECURSIVE SeqsUpTo(_, _)
\* the sequences over S of length n at most
SeqsUpTo(S, n) ==
    IF n = 0 THEN {<<>>}
    ELSE LET shorter == SeqsUpTo(S, n - 1)
         IN  shorter \cup {Append(q, x) : q \in {r \in shorter : Len(r) = n - 1}, x \in S}

\* no element twice
Distinct(q) == \A i, j \in DOMAIN q : q[i] = q[j] => i = j

\* a section names each of its datapoints once
Sections(maxDatapoints) ==
    {[section |-> n, datapoints |-> dps] :
        n \in {"s1", "s2"},
        dps \in {q \in SeqsUpTo(Datapoints, maxDatapoints) : Distinct(q)}}

Configs(maxSections, maxDatapoints) ==
    {[sections |-> ss] : ss \in SeqsUpTo(Sections(maxDatapoints), maxSections)}

RECURSIVE JoinWith(_, _)
\* Array.prototype.join(sep) of texts
JoinWith(parts, sep) ==
    IF parts = <<>> THEN <<>>
    ELSE IF Len(parts) = 1 THEN parts[1]
    ELSE parts[1] \o <<sep>> \o JoinWith(Tail(parts), sep)

\* Mutant: an options line for every array, the empty one too
DatapointPartsAnyArray(dp) ==
    << <<"  - datapoint:">>,
       <<"    - name: ", dp.name>>,
       <<"    - format: ", dp.format>>,
       <<"    - instructions: ", dp.instructions>> >>
    \o (IF dp.options.isArray
          THEN << <<"    - options: ">>
                  \o JoinWith([i \in DOMAIN dp.options.list |-> <<dp.options.list[i]>>], ", ") >>
          ELSE <<>>)

\* the body of `for (const dp of sec.datapoints || [])`: what it pushes
DatapointParts(dp) ==
    << <<"  - datapoint:">>,
       <<"    - name: ", dp.name>>,
       <<"    - format: ", dp.format>>,
       <<"    - instructions: ", dp.instructions>> >>
    \o (IF dp.options.isArray /\ Len(dp.options.list) > 0
          THEN << <<"    - options: ">>
                  \o JoinWith([i \in DOMAIN dp.options.list |-> <<dp.options.list[i]>>], ", ") >>
          ELSE <<>>)

RECURSIVE DatapointsParts(_)
DatapointsParts(dps) ==
    IF dps = <<>> THEN <<>>
    ELSE DatapointParts(Head(dps)) \o DatapointsParts(Tail(dps))

RECURSIVE SectionsParts(_)
\* the body of `for (const sec of config.sections || [])`: what it pushes
SectionsParts(secs) ==
    IF secs = <<>> THEN <<>>
    ELSE << <<"- section: ", Head(secs).section>> >>
         \o DatapointsParts(Head(secs).datapoints)
         \o << <<>> >>
         \o SectionsParts(Tail(secs))

\* renderOnboarding(config): parts.join('\n')
RenderOnboarding(config) == JoinWith(SectionsParts(config.sections), "\n")

RenderInit ==
    /\ Fresh /\ pc = "render" /\ variant = "cli"
    /\ env.apiKey /\ ~env.mixrankKey /\ env.override = Unset /\ file = NoFile
    /\ fnIn \in [fn : {"render"}, config : Configs(MaxSections, MaxDatapoints)]
    /\ fnOut = NoCall

RenderCall ==
    /\ pc = "render"
    /\ fnOut.fn = "none"
    /\ fnOut' = [fn |-> "render", text |-> RenderOnboarding(fnIn.config)]
    /\ UNCHANGED <<user, fnIn, variant, env, storeVars, pc, shellOut, nTurns, inFlight,
                   turnLog, unanswered, localVars, turnResult>>

RenderSpec == RenderInit /\ [][RenderCall]_vars

----------------------------------------------------------------------------
(* enrichEmailWithMixRank applied on its own: any address, with or without  *)
(* a credential in the options and in the environment, against any upstream *)

EnrichInit ==
    /\ Fresh /\ pc = "enrich" /\ variant = "cli"
    /\ env.apiKey /\ env.override = Unset /\ file = NoFile
    /\ fnIn \in [fn : {"enrich"}, email : Emails, optKey : {NoKey, OptKey},
                 up : AllUpstreams]
    /\ fnOut = NoCall

EnrichCall ==
    /\ pc = "enrich"
    /\ fnOut.fn = "none"
    /\ fnOut' = [fn |-> "enrich",
                 result |-> EnrichEmailWithMixRank(fnIn.email, fnIn.optKey,
                                                   MixrankKey(env), fnIn.up)]
    /\ UNCHANGED <<user, fnIn, variant, env, storeVars, pc, shellOut, nTurns, inFlight,
                   turnLog, unanswered, localVars, turnResult>>

EnrichSpec == EnrichInit /\ [][EnrichCall]_vars

----------------------------------------------------------------------------
(* enrichEmailWithMixRank applied to 200 responses whose JSON body is, or   *)
(* wraps, a person: the source and the compiled module                      *)

\* a person with the members of `present`, a company of the given kind and
\* the given lists
PersonWith(present, company, positions, industries) ==
    [Person(present) EXCEPT !.company = company, !.positions = positions,
                            !.industries = industries]

\* the bodies that have any of `members`, a company member of one of the
\* kinds `companies`, one of the position lists and one of the industry lists
PeopleOf(f) ==
    {PersonWith(S, c, p, i) :
        S \in SUBSET f.members, c \in f.companies, p \in f.positions,
        i \in f.industries}

\* the flat sources of the name, the title, the company and the industry,
\* with and without a company text
FlatFamily ==
    [members |-> {"full_name", "first_name", "last_name", "title", "job_title",
                  "current_company", "industry"},
     companies |-> {"none", "string"},
     positions |-> {<<>>}, industries |-> {NoIndustries}]

\* every source of the name
NameFamily ==
    [members |-> NameMembers \cup {"full_name", "first_name", "last_name"},
     companies |-> {"none"}, positions |-> {<<>>}, industries |-> {NoIndustries}]

\* every source of the title
TitleFamily ==
    [members |-> {"linkedin.title", "linkedin.headline", "title", "job_title"},
     companies |-> {"none"}, positions |-> PositionLists,
     industries |-> {NoIndustries}]

\* every source of the company
CompanyFamily ==
    [members |-> {"company.name", "linkedin.org", "current_company"},
     companies |-> {"none", "string", "object"}, positions |-> {<<>>},
     industries |-> {NoIndustries}]

\* every source of the location
LocationFamily ==
    [members |-> {"linkedin.location.text", "company.address.city",
                  "company.address.country", "location", "city", "country"},
     companies |-> {"none", "object"}, positions |-> {<<>>},
     industries |-> {NoIndustries}]

\* every source of the industry
IndustryFamily ==
    [members |-> {"linkedin.industry", "industry"},
     companies |-> {"none", "object"}, positions |-> {<<>>},
     industries |-> IndustryLists]

\* every source of the profile URL
UrlFamily ==
    [members |-> {"linkedin.url", "linkedin_url", "profile_url"},
     companies |-> {"none"}, positions |-> {<<>>}, industries |-> {NoIndustries}]

Families == {FlatFamily, NameFamily, TitleFamily, CompanyFamily, LocationFamily,
             IndustryFamily, UrlFamily}

People(families) == UNION {PeopleOf(f) : f \in families}

ExtractInit ==
    /\ Fresh /\ pc = "extract" /\ variant = "cli"
    /\ env.apiKey /\ env.mixrankKey /\ env.override = Unset /\ file = NoFile
    /\ fnIn \in [fn : {"extract"}, version : {"ts", "compiled"},
                 wrapped : BOOLEAN,
                 person : People(Families)]
    /\ fnOut = NoCall

\* the 200 response the upstream sends for fnIn
PersonResponse ==
    [Upstream("response", 200, TRUE, "ok", TRUE, Undefined)
       EXCEPT !.wrapped = fnIn.wrapped, !.person = fnIn.person]

ExtractCall ==
    /\ pc = "extract"
    /\ fnOut.fn = "none"
    /\ fnOut' = [fn |-> "extract",
                 result |-> EnrichEmailOf(fnIn.version, GoodEmail, NoKey,
                                          MixrankKey(env), PersonResponse)]
    /\ UNCHANGED <<user, fnIn, variant, env, storeVars, pc, shellOut, nTurns, inFlight,
                   turnLog, unanswered, localVars, turnResult>>

ExtractSpec == ExtractInit /\ [][ExtractCall]_vars

----------------------------------------------------------------------------
(* One iteration of the tool loop applied on its own to an enrich call with *)
(* any argument payload, in both revisions                                  *)

ToolInit ==
    /\ Fresh /\ pc = "tool"
    /\ env.apiKey /\ env.override = Unset /\ file = NoFile
    /\ fnIn \in [fn : {"toolOutput"},
                 call : {CallItem("enrich", CallId(1, "s", 1), a) : a \in AllEnrichArgs},
                 up : AllUpstreams]
    /\ fnOut = NoCall

ToolCall ==
    /\ pc = "tool"
    /\ fnOut.fn = "none"
    /\ fnOut' = [fn |-> "toolOutput",
                 entries |-> ToolOutput(fnIn.call, variant, MixrankKey(env), fnIn.up),
                 clientCalls |-> IF CallsClient(fnIn.call) THEN 1 ELSE 0]
    /\ UNCHANGED <<user, fnIn, variant, env, storeVars, pc, shellOut, nTurns, inFlight,
                   turnLog, unanswered, localVars, turnResult>>

ToolSpec == ToolInit /\ [][ToolCall]_vars

----------------------------------------------------------------------------
(* Properties *)

Started == pc \notin {"boot", "main", "exit_nokey", "store"}

\* C1: whenever the finalized streamed response holds n >= 1 function calls,
\* a follow-up request is sent, it carries exactly n function_call_output
\* entries, and their call ids are the call ids of the invocations, each once.
C1_FollowUpAnswersEveryInvocation ==
    /\ [](pc = "followup" =>
            /\ inFlight.kind = "followup"
            /\ NumInvocations(final.output) >= 1
            /\ Len(inFlight.results) = NumInvocations(final.output)
            /\ ResultIds(inFlight) = InvocationIds(final.output)
            /\ Cardinality(ResultIds(inFlight)) = Len(inFlight.results))
    /\ [][(pc = "finalizing" /\ pc' = "prompt" /\ turnResult'.status = "returned")
            => unanswered' = {}]_vars
    /\ [][(pc = "tools" /\ pc' # "tools") => pc' = "followup"]_vars

\* a follow-up for a response that called enrich first and stripe second
C1_Witness ==
    /\ pc = "followup"
    /\ Len(inFlight.results) = 2
    /\ Len(final.output) = 2
    /\ final.output[1].name = "enrich"
    /\ final.output[2].name = "stripe"

\* C2, as claimed: every request sent on the conversation carries a result for
\* each invocation of the response received last; in particular no user
\* message is sent while one is unanswered.
C2_Original ==
    [][(inFlight' # inFlight /\ inFlight'.kind # "none")
         => unanswered \subseteq ResultIds(inFlight')]_vars

\* C3: with no override, a resolve that finds no persisted handle and returns
\* has created one conversation and persisted its id; a resolve that follows a
\* returned resolve with no forget in between, and whose read of the file
\* succeeds, returns the same id and creates nothing.
C3_ResolveCreatesOnceThenReuses ==
    /\ [][(/\ pc = "store"
           /\ ~(env.override.set /\ Trim(env.override.value) # <<>>)
           /\ (~file.exists \/ Trim(file.content) = <<>>)
           /\ shellOut'.kind = "resolved")
          => (/\ nConv' = nConv + 1
              /\ conversationId' = ConvId(nConv')
              /\ file' = FileOf(conversationId'))]_vars
    /\ [][(/\ pc = "store"
           /\ ~(env.override.set /\ Trim(env.override.value) # <<>>)
           /\ shellOut.kind = "resolved"
           /\ shellOut'.kind = "resolved"
           /\ ~lastResolve'.readFailed)
          => (/\ conversationId' = conversationId
              /\ nConv' = nConv
              /\ file' = file)]_vars

\* the second resolve of a run returned the handle the first one created
C3_Witness ==
    /\ pc = "store"
    /\ ~env.override.set
    /\ shellOut = Said("resolved", ConvId(1))
    /\ lastResolve.read /\ ~lastResolve.created
    /\ nConv = 1
    /\ file = FileOf(ConvId(1))

\* C4, as claimed: a /reset that completes (its unlink not rejected) leaves the
\* shell with a handle the provider created in that very resolve, different
\* from the handle in use and from the persisted one.
C4_Original ==
    [][(pc = "prompt" /\ pc' = "prompt" /\ shellOut'.kind = "started"
          /\ ~lastResolve'.forgetFailed)
         => (/\ nConv' = nConv + 1
             /\ conversationId' = ConvId(nConv')
             /\ conversationId' # conversationId
             /\ conversationId' # Trim(file.content))]_vars

\* C5, as claimed: a non-empty override is returned unchanged, with no
\* provider call and no access to the handle file.
C5_Original ==
    (Started /\ env.override.set /\ env.override.value # <<>>)
      => (/\ ~lastResolve.threw
          /\ lastResolve.id = env.override.value
          /\ ~lastResolve.created /\ ~lastResolve.read /\ ~lastResolve.wrote
          /\ lastResolve.file = lastResolve.fileBefore)

\* C5, amended: an override that is non-empty after trimming is returned
\* trimmed, with no provider call and no access to the handle file; an
\* override that is blank is not returned.
C5_OverrideReturnedTrimmed ==
    Started =>
      IF env.override.set /\ Trim(env.override.value) # <<>>
        THEN /\ ~lastResolve.threw
             /\ lastResolve.forced
             /\ lastResolve.id = Trim(env.override.value)
             /\ conversationId = Trim(env.override.value)
             /\ ~lastResolve.created /\ ~lastResolve.read /\ ~lastResolve.wrote
             /\ lastResolve.file = lastResolve.fileBefore
             /\ nConv = 0
        ELSE ~lastResolve.forced

\* the shell runs on an override that was given with blanks around it
C5_Witness ==
    /\ pc = "prompt"
    /\ env.override.value = <<" ">> \o ForcedId \o <<" ">>
    /\ conversationId = ForcedId
    /\ lastResolve.forced

\* C6, as claimed: when reading or writing the handle file fails (and the
\* provider does create the conversation), resolve returns the new handle and
\* the process does not terminate.
C6_Original ==
    ((lastResolve.readFailed \/ lastResolve.writeFailed) /\ ~lastResolve.createFailed)
      => (~lastResolve.threw /\ lastResolve.created /\ pc # "exit_fatal")

\* C7, as claimed: when the startup resolve does not return an override (and
\* the unlink, if attempted, succeeded), the handle the run starts with was
\* created in this run and is not the one an earlier run persisted.
C7_Original ==
    (pc = "prompt" /\ shellOut.kind = "using"
       /\ ~lastResolve.forced /\ ~lastResolve.forgetFailed)
      => (/\ lastResolve.created
          /\ conversationId = ConvId(1)
          /\ conversationId # StaleId)

\* C8, as claimed: the process terminates with an error only when the
\* provider credential is missing.
C8_Original == pc \in {"exit_nokey", "exit_fatal"} => ~env.apiKey

\* C9: when the stream delivers an error event the turn fails at once: the
\* shell prints the error and is back at its prompt, and the turn dispatches
\* no tool and sends no follow-up.
C9_StreamErrorFailsTurn ==
    /\ [][(pc = "streaming" /\ turnLog'.streamError)
            => (/\ pc' = "prompt"
                /\ turnResult' = Threw
                /\ shellOut'.kind = "error"
                /\ inFlight'.kind = "none"
                /\ nTurns' = nTurns
                /\ UNCHANGED <<conversationId, file>>)]_vars
    /\ [](turnLog.streamError =>
            /\ pc \in {"prompt", "exit_ok", "exit_fatal"}
            /\ turnLog.followUps = 0
            /\ outputs = <<>>
            /\ turnResult = Threw)

\* an error event has failed the turn and the shell is at its prompt again
C9_Witness ==
    /\ pc = "prompt"
    /\ turnLog.streamError
    /\ shellOut.kind = "error"
    /\ turnResult.status = "threw"

C11_Original ==
    [][(pc = "opening" /\ pc' = "retrying")
         => (/\ inFlight'.tools = inFlight.tools \ {"web_search"}
             /\ "enrich" \in inFlight'.tools
             /\ inFlight'.effort = "minimal"
             /\ inFlight'.tool_choice = inFlight.tool_choice
             /\ inFlight'.conversation = inFlight.conversation)]_vars

\* C11, amended: the retry is the rejected request with every tool
\* declaration, tool_choice and include removed and the effort set to
\* minimal; the message, the handle and the rest are the same.  There is one
\* retry: a second rejection fails the turn.
C11_RetryWithoutTools ==
    /\ [][(pc = "opening" /\ pc' = "retrying")
            => (/\ "web_search" \in inFlight.tools
                /\ inFlight'.tools = {}
                /\ ~inFlight'.tool_choice
                /\ ~inFlight'.include
                /\ inFlight.effort = "low" /\ inFlight'.effort = "minimal"
                /\ inFlight'.kind = inFlight.kind
                /\ inFlight'.conversation = inFlight.conversation
                /\ inFlight'.instructions = inFlight.instructions
                /\ inFlight'.results = inFlight.results
                /\ request' = inFlight'
                /\ turnLog'.opens = 2)]_vars
    /\ [][pc = "retrying" => pc' \in {"streaming", "prompt"}]_vars
    /\ [][(pc = "retrying" /\ pc' = "prompt") => turnResult' = Threw]_vars
    /\ [](turnLog.opens <= 2)

\* the stream of a retry is being consumed
C11_Witness ==
    /\ pc = "streaming"
    /\ turnLog.opens = 2
    /\ inFlight.tools = {}
    /\ inFlight.effort = "minimal"
    /\ nEvents = 1

\* how many times the system prompt was delivered to handle h
TimesPrompted(h) == Cardinality({i \in DOMAIN sysPrompts : sysPrompts[i] = h})

\* C12, as claimed: every request of a turn runs on a handle that has received
\* the system prompt exactly once, whether resolve created the handle or the
\* override supplied it, and a request that carries a handle carries no
\* instructions.
C12_Original ==
    (/\ inFlight.kind # "none" /\ inFlight.conversation # <<>>
     /\ (lastResolve.created \/ lastResolve.forced))
      => (TimesPrompted(inFlight.conversation) = 1 /\ ~inFlight.instructions)

RECURSIVE DeltaText(_)
\* the text of the process.stdout.write calls of a sequence of writes
DeltaText(w) ==
    IF w = <<>> THEN <<>>
    ELSE IF Head(w).via = "process.stdout.write"
      THEN <<Head(w).text>> \o DeltaText(Tail(w))
    ELSE DeltaText(Tail(w))

\* C13: while the stream is consumed, the text written with
\* process.stdout.write is the sequence of the deltas that have arrived, in
\* their order, and each delta is written, last, in the very step that
\* consumes its event.
C13_DeltasWrittenInOrder ==
    /\ [](pc = "streaming" => DeltaText(stdout) = arrived)
    /\ [][(pc = "streaming" /\ Len(arrived') = Len(arrived) + 1)
            => (/\ nEvents' = nEvents + 1
                /\ stdout' = Append(stdout, Write("process.stdout.write",
                                                  arrived'[Len(arrived')])))]_vars
    /\ [][(pc = "streaming" /\ pc' = "streaming" /\ arrived' = arrived)
            => DeltaText(stdout') = DeltaText(stdout)]_vars

\* two different deltas have arrived and are on the terminal
C13_Witness ==
    /\ pc = "streaming"
    /\ arrived = <<"y", "x">>
    /\ stdout = <<Write("process.stdout.write", "y"), Write("process.stdout.write", "x")>>

\* C14: the tool branch ends in a follow-up exactly when it produced at least
\* one result.  The follow-up is one non-streamed request whose input is the
\* results and nothing else, with the tool declarations and the handle of the
\* streamed request.  A finalized response without invocations is followed by
\* no request: the turn returns the streamed response's id.
C14_FollowUpIffResults ==
    /\ [][(pc = "tools" /\ pc' # "tools")
            => IF outputs # <<>>
                 THEN /\ pc' = "followup"
                      /\ inFlight'.kind = "followup"
                      /\ inFlight'.results = outputs
                      /\ inFlight'.tools = request.tools
                      /\ request.kind = "user"
                      /\ inFlight'.conversation = request.conversation
                      /\ inFlight'.conversation = conversationId
                      /\ turnLog'.followUps = 1
                 ELSE /\ pc' = "prompt"
                      /\ turnLog'.followUps = 0
                      /\ turnResult' = Returned(final.id)]_vars
    /\ [][(inFlight'.kind = "followup" /\ inFlight' # inFlight)
            => (pc = "tools" /\ outputs # <<>> /\ turnLog.followUps = 0)]_vars
    /\ [](turnLog.followUps <= 1)
    /\ [][(pc = "finalizing" /\ pc' # "finalizing" /\ turnResult'.status # "threw"
             /\ unanswered' = {})
            => (/\ pc' = "prompt"
                /\ turnResult' = Returned(RespId(nTurns, "s"))
                /\ inFlight'.kind = "none"
                /\ turnLog'.followUps = 0)]_vars

\* a follow-up for a response that held a message and one enrich call, in the
\* enrich-only revision
C14_Witness ==
    /\ pc = "followup"
    /\ variant = "enrichOnly"
    /\ inFlight.kind = "followup"
    /\ Len(inFlight.results) = 1
    /\ Len(final.output) = 2
    /\ final.output[1].type = "message"

\* C15: a follow-up that completes makes sendAndStream return the follow-up's
\* id, not the streamed response's.  The follow-up was stored in the
\* conversation of the shell's handle, and the next turn is sent on the
\* shell's handle, which only startup and /reset assign.
C15_FollowUpIdSupersedes ==
    /\ [][(pc = "followup" /\ pc' = "prompt" /\ ~turnLog'.followFailed)
            => (/\ turnResult' = Returned(RespId(nTurns, "f"))
                /\ turnResult'.id # final.id
                /\ inFlight.kind = "followup"
                /\ inFlight.conversation = conversationId
                /\ conversationId' = conversationId)]_vars
    /\ [][(pc = "prompt" /\ pc' = "opening")
            => (/\ inFlight'.kind = "user"
                /\ inFlight'.conversation = conversationId
                /\ conversationId' = conversationId)]_vars
    /\ [][conversationId' # conversationId
            => (pc = "main" \/ (pc = "prompt" /\ shellOut'.kind = "started"))]_vars

\* the first turn has returned the id of its follow-up and the shell, still
\* on the handle the follow-up was sent on, is ready for the next turn
C15_Witness ==
    /\ pc = "prompt"
    /\ nTurns = 1
    /\ turnLog.followUps = 1
    /\ turnResult = Returned(RespId(1, "f"))
    /\ shellOut.kind = "newline"
    /\ conversationId = ConvId(1)

\* C16: an enrich call whose payload is not JSON, or has no email member, or
\* has one that is not a string or is empty, gets a local result with status
\* 400 and error 'Missing email' and the enrichment client is not called;
\* every other enrich call calls the client once, with the address of the
\* payload, and its output is the serialized result of that call.
C16_EnrichArguments ==
    (pc = "tool" /\ fnOut.fn = "toolOutput") =>
      LET a   == fnIn.call.arguments
          bad == ~a.json \/ ~a.hasEmail \/ ~a.isString \/ a.email = <<>>
          res == EnrichEmailWithMixRank(a.email, NoKey, MixrankKey(env), fnIn.up)
          out == fnOut.entries[1].output.json
      IN  /\ Len(fnOut.entries) = 1
          /\ fnOut.entries[1].type = "function_call_output"
          /\ fnOut.entries[1].call_id = fnIn.call.call_id
          /\ DOMAIN out = {"email", "status", "error", "data", "enriched"}
          /\ IF bad
               THEN /\ fnOut.clientCalls = 0
                    /\ out.status = 400
                    /\ out.error = "Missing email"
                    /\ out.email = <<>>
               ELSE /\ fnOut.clientCalls = 1
                    /\ out.email = a.email
                    /\ out.status = res.status
                    /\ out.error = res.error
                    /\ out.data = res.data
                    /\ out.enriched = res.enriched

\* the payload held the number 7 as its email member
C16_Witness ==
    /\ pc = "tool"
    /\ fnOut.fn = "toolOutput"
    /\ fnIn.call.arguments = ArgsOf(TRUE, TRUE, FALSE, <<"7">>)
    /\ fnOut.clientCalls = 0
    /\ fnOut.entries[1].output.json.status = 400

\* C17: an address without '@', the empty one included, yields status 400 and
\* no request, with or without a credential.
C17_NoAtIs400 ==
    (pc = "enrich" /\ fnOut.fn = "enrich" /\ ~HasAt(fnIn.email))
      => (/\ fnOut.result.status = 400
          /\ ~fnOut.result.fetched
          /\ fnOut.result.email = fnIn.email)

\* an address without '@' was refused although both credentials were there
C17_Witness ==
    /\ pc = "enrich"
    /\ fnOut.fn = "enrich"
    /\ fnIn.email = NoAtEmail
    /\ fnIn.optKey = OptKey /\ env.mixrankKey
    /\ fnOut.result.status = 400

\* no credential in the options and none in the environment
NoCredential == fnIn.optKey = NoKey /\ ~env.mixrankKey

\* C18, as claimed: with no credential the result has status 401 and no
\* request is issued, for every address.
C18_Original ==
    (pc = "enrich" /\ fnOut.fn = "enrich" /\ NoCredential)
      => (fnOut.result.status = 401 /\ ~fnOut.result.fetched)

\* C18, amended: with no credential no request is issued; the result has
\* status 401 for every address that contains '@' and status 400 for the
\* others.
C18_NoCredentialIs401 ==
    (pc = "enrich" /\ fnOut.fn = "enrich" /\ NoCredential)
      => (/\ ~fnOut.result.fetched
          /\ fnOut.result.status = IF Truthy(fnIn.email) /\ HasAt(fnIn.email)
                                     THEN 401 ELSE 400)

\* a well-formed address was refused for want of a credential
C18_Witness ==
    /\ pc = "enrich"
    /\ fnOut.fn = "enrich"
    /\ NoCredential
    /\ fnIn.email = GoodEmail
    /\ fnOut.result.status = 401

\* the call went to the network and the response was received: its headers
\* arrived and its body was read, or is JSON (whose read cannot fail the call)
Received ==
    /\ pc = "enrich" /\ fnOut.fn = "enrich"
    /\ fnOut.result.fetched
    /\ fnIn.up.kind = "response"
    /\ (fnIn.up.isJson \/ fnIn.up.read = "ok")

\* C19: the result of a received response carries the response's status; its
\* message is fixed by the class of the status for 202, 404, 401/403 and 429,
\* whatever the body, and for any other status but 200 it is the error member
\* of a JSON body that has one, else 'Unexpected error'.
C19_StatusPreserved ==
    Received =>
      LET st == fnIn.up.status
          up == fnIn.up
      IN  /\ fnOut.result.status = st
          /\ fnOut.result.error =
               CASE st = 200 -> ""
                 [] st = 202 -> "Queued. Try again later."
                 [] st = 404 -> "Not found"
                 [] st \in {401, 403} -> "Unauthorized. Check API key."
                 [] st = 429 -> "Rate limited. Slow down or try later."
                 [] OTHER -> IF up.isJson /\ up.read = "ok" /\ up.parses
                                  /\ JsTruthy(up.error)
                               THEN up.error.str ELSE "Unexpected error"

\* a 429 whose JSON body names an error of its own is reported as rate limited
C19_Witness ==
    /\ Received
    /\ fnIn.up.status = 429
    /\ fnIn.up.isJson /\ fnIn.up.parses /\ fnIn.up.read = "ok"
    /\ fnIn.up.error = JsVal("string", "boom")
    /\ fnOut.result.error = "Rate limited. Slow down or try later."

\* C20, as claimed: when the timer fires before the headers arrive or while
\* the body is read, the call returns status 0 and a non-empty message.
C20_Original ==
    (/\ pc = "enrich" /\ fnOut.fn = "enrich" /\ fnOut.result.fetched
     /\ (fnIn.up.kind = "timeout"
           \/ (fnIn.up.kind = "response" /\ fnIn.up.read = "timeout")))
      => (fnOut.result.status = 0 /\ fnOut.result.error # "")

\* C21, as claimed: every transport failure (fetch rejects, the request is
\* aborted, the read of the body fails) yields a result with status 0 whose
\* error is the message of the exception.
C21_Original ==
    (/\ pc = "enrich" /\ fnOut.fn = "enrich" /\ fnOut.result.fetched
     /\ (fnIn.up.kind \in {"reject", "timeout"}
           \/ (fnIn.up.kind = "response" /\ fnIn.up.read # "ok")))
      => (/\ fnOut.result.status = 0
          /\ fnOut.result.error =
               CASE fnIn.up.kind = "reject" -> FetchMessage
                 [] fnIn.up.kind = "timeout" -> AbortMessage
                 [] fnIn.up.read = "timeout" -> AbortMessage
                 [] OTHER -> ReadMessage)

\* the call on a person has returned
Extracted == pc = "extract" /\ fnOut.fn = "extract"

\* member m of the person of the body is there
Has(m) == fnIn.person.text[m] # <<>>

\* the body of C22: the person itself, with first_name, last_name, title and a
\* company text, and with no nested name, linkedin or company object
FlatBody ==
    /\ Extracted
    /\ ~fnIn.wrapped
    /\ Has("first_name") /\ Has("last_name") /\ Has("title")
    /\ fnIn.person.company = "string"
    /\ \A m \in NameMembers \cup LinkedinMembers : ~Has(m)
    /\ fnIn.person.positions = <<>>

\* what C22 says of the result
FlatResult ==
    /\ fnOut.result.status = 200
    /\ fnOut.result.data.kind = "json"
    /\ fnOut.result.data.person = fnIn.person
    /\ fnOut.result.enriched.name = <<"first_name", " ", "last_name">>
    /\ fnOut.result.enriched.title = <<"title">>
    /\ fnOut.result.enriched.company = <<"company">>

NestedTexts ==
    {<<m>> : m \in NameMembers \cup LinkedinMembers \cup CompanyMembers}
    \cup {<<"name.first", " ", "name.last">>,
          <<"company.address.city", ", ", "company.address.country">>,
          <<"positions[0].title">>, <<"positions[1].title">>,
          <<"industries[0].name">>, <<"industries[1].name">>}

\* the source's extraction prefers the nested sources of the name
NameNestedFirst ==
    /\ (Has("name.full") /\ (Has("full_name") \/ Has("first_name") \/ Has("last_name")))
         => fnOut.result.enriched.name = <<"name.full">>
    /\ (Has("name.first") /\ Has("name.last")
          /\ (Has("full_name") \/ Has("first_name") \/ Has("last_name")))
         => fnOut.result.enriched.name \in NestedTexts

TitleNestedFirst ==
    ((Has("linkedin.title") \/ Has("linkedin.headline")
        \/ TopPositionTitle(fnIn.person.positions) # <<>>)
      /\ (Has("title") \/ Has("job_title")))
      => fnOut.result.enriched.title \in NestedTexts

CompanyNestedFirst ==
    ((CompanyMember(fnIn.person, "company.name") # <<>> \/ Has("linkedin.org"))
      /\ (Has("current_company") \/ fnIn.person.company = "string"))
      => fnOut.result.enriched.company \in NestedTexts

UrlNestedFirst ==
    (Has("linkedin.url") /\ (Has("linkedin_url") \/ Has("profile_url")))
      => fnOut.result.enriched.linkedinUrl \in NestedTexts

LocationNestedFirst ==
    ((Has("linkedin.location.text")
        \/ (CompanyMember(fnIn.person, "company.address.city") # <<>>
              /\ CompanyMember(fnIn.person, "company.address.country") # <<>>))
      /\ (Has("location") \/ (Has("city") /\ Has("country"))))
      => fnOut.result.enriched.location \in NestedTexts

IndustryNestedFirst ==
    ((PrimaryIndustry(fnIn.person) # <<>> \/ Has("linkedin.industry"))
      /\ Has("industry"))
      => fnOut.result.enriched.industry \in NestedTexts

\* C23, as claimed, of the source's extractEnrichedFields: for each of the six
\* fields, when a nested source and a flat one both carry a value, the value
\* returned is the nested source's.
C23_Original ==
    (Extracted /\ fnIn.version = "ts")
      => (/\ NameNestedFirst
          /\ TitleNestedFirst
          /\ CompanyNestedFirst
          /\ UrlNestedFirst
          /\ LocationNestedFirst
          /\ IndustryNestedFirst)

RECURSIVE SplitLines(_, _)
\* the lines of a text: cur is the line being read
SplitLines(text, cur) ==
    IF text = <<>> THEN <<cur>>
    ELSE IF Head(text) = "\n" THEN <<cur>> \o SplitLines(Tail(text), <<>>)
    ELSE SplitLines(Tail(text), Append(cur, Head(text)))

Rendered == pc = "render" /\ fnOut.fn = "render"

\* the lines of the rendered text that say something about the schema: all
\* but the '- datapoint:' headers and the empty lines
SchemaLines ==
    SelectSeq(SplitLines(fnOut.text, <<>>),
              LAMBDA l : l # <<>> /\ l # <<"  - datapoint:">>)

\* the lines a datapoint is to have: name, format, instructions, and options
\* when the list is there and not empty
DatapointLines(dp) ==
    << <<"    - name: ", dp.name>>, <<"    - format: ", dp.format>>,
       <<"    - instructions: ", dp.instructions>> >>
    \o (IF dp.options.isArray /\ dp.options.list # <<>>
          THEN << <<"    - options: ">> \o JoinWith([i \in DOMAIN dp.options.list |->
                                                          <<dp.options.list[i]>>], ", ") >>
          ELSE <<>>)

RECURSIVE SchemaOf(_, _, _)
\* the lines a schema is to have, from datapoint j of section i on
SchemaOf(secs, i, j) ==
    IF i > Len(secs) THEN <<>>
    ELSE IF j = 0 THEN << <<"- section: ", secs[i].section>> >> \o SchemaOf(secs, i, 1)
    ELSE IF j > Len(secs[i].datapoints) THEN SchemaOf(secs, i + 1, 0)
    ELSE DatapointLines(secs[i].datapoints[j]) \o SchemaOf(secs, i, j + 1)

\* C24: the rendered text has one line per section, in the order of the
\* schema, and under it, in their order, the name, format and instructions
\* lines of each of its datapoints, followed by an options line exactly when
\* the datapoint has a list of options that is not empty.
C24_RenderOnboarding ==
    Rendered => SchemaLines = SchemaOf(fnIn.config.sections, 1, 0)

\* two sections of one datapoint each, the second with an empty options list
C24_Witness ==
    /\ Rendered
    /\ Len(fnIn.config.sections) = 2
    /\ fnIn.config.sections[1].section = "s2"
    /\ fnIn.config.sections[2].section = "s1"
    /\ fnIn.config.sections[1].datapoints = <<Datapoint("3", OptionsOf(<<"o1", "o2">>))>>
    /\ fnIn.config.sections[2].datapoints = <<Datapoint("2", OptionsOf(<<>>))>>
    /\ Len(SchemaLines) = 9

\* a step of the shell that sends nothing to the responses endpoint
NothingSent == inFlight' = NoRequest /\ turnLog' = turnLog /\ nTurns' = nTurns

\* a step of the shell that starts one turn: one request to the responses
\* endpoint, the first of its turn
OneTurnSent ==
    /\ nTurns' = nTurns + 1
    /\ turnLog' = [NoLog EXCEPT !.opens = 1]
    /\ inFlight'.kind = "user"
    /\ pc' = "opening"

\* a step of the shell that forgets the persisted handle and resolves again
ResetDone ==
    /\ lastResolve'.fileBefore = (IF lastResolve'.forgetFailed THEN file ELSE NoFile)
    /\ IF lastResolve'.threw
         THEN pc' = "exit_fatal"
         ELSE /\ pc' = "prompt"
              /\ conversationId' = lastResolve'.id
              /\ shellOut' = Said("started", lastResolve'.id)

\* a step of the shell that prints the handle
IdPrinted ==
    /\ shellOut' = Said("id", conversationId)
    /\ pc' = "prompt"
    /\ UNCHANGED <<conversationId, file>>

SessionEnded == pc' = "exit_ok" /\ UNCHANGED <<conversationId, file, shellOut>>

\* C25 as stated, the inputs taken as typed: an empty line or 'exit' ends the
\* session, '/reset' or 'reset' resets, '/id' prints the handle, none of them
\* sending a request, and every other line is sent as one turn.  Violated: the
\* line ' EXIT ' ends the session and 'Reset' resets, neither is sent.
C25_Original ==
    [][pc = "prompt" =>
         LET line == user'.line
         IN  /\ line \in {<<>>, LineExit} => SessionEnded /\ NothingSent
             /\ line \in {LineReset, ToLowerCase(LineResetBare)} => ResetDone /\ NothingSent
             /\ line = LineId => IdPrinted /\ NothingSent
             /\ line \notin {<<>>, LineExit, LineReset, ToLowerCase(LineResetBare), LineId}
                  => OneTurnSent]_vars

\* C25: the shell reads a line only when it is idle at the prompt.  A line
\* that is empty, or that is 'exit' once trimmed and lower-cased, ends the
\* session; one that is '/reset' or 'reset' once trimmed and lower-cased
\* forgets the persisted handle and resolves again; one that is '/id' once
\* trimmed and lower-cased prints the handle held; none of these sends a request to the
\* responses endpoint.  Every other line starts exactly one turn, and a turn
\* is started by nothing else.
C25_ControlInputs ==
    [][IF pc = "prompt"
         THEN LET line  == user'.line
                  lower == ToLowerCase(Trim(line))
              IN  /\ user'.read
                  /\ IF line = <<>> \/ lower = <<"e", "x", "i", "t">>
                       THEN SessionEnded /\ NothingSent
                     ELSE IF lower \in {<<"/", "r", "e", "s", "e", "t">>,
                                        <<"r", "e", "s", "e", "t">>}
                       THEN ResetDone /\ NothingSent
                     ELSE IF lower = <<"/", "i", "d">>
                       THEN IdPrinted /\ NothingSent
                     ELSE OneTurnSent
         ELSE user' = user /\ nTurns' = nTurns]_vars

\* a session in which a line was sent as a turn, a reset created a second
\* conversation and ' EXIT ' ended it
C25_Witness ==
    /\ pc = "exit_ok"
    /\ user = Typed(LineExitLoud)
    /\ nTurns = 1
    /\ turnResult.status = "returned"
    /\ nConv = 2
    /\ shellOut.kind = "started"

\* sendAndStream has been called and has neither returned nor thrown
Running == turnResult.status = "running"

TurnPositions == {"opening", "retrying", "streaming", "finalizing", "tools", "followup"}

\* C26: a turn runs exactly while the process is inside sendAndStream, and
\* as long as it runs no line is read and no turn is started; a line is read
\* and a turn is started only at the prompt, with no request awaited and
\* nothing left of an earlier turn; and a turn ends by a failure, or after the
\* stream was finalized without calls to handle, or after every call was
\* dispatched and the follow-up, if one was sent, resolved or rejected.
C26_OneTurnInFlight ==
    [][/\ Running <=> pc \in TurnPositions
       /\ Running => user' = user /\ nTurns' = nTurns
       /\ (user' # user \/ nTurns' # nTurns)
            => /\ pc = "prompt"
               /\ inFlight = NoRequest
               /\ request = NoRequest
               /\ outputs = <<>> /\ fnCalls = <<>>
       /\ (Running /\ turnResult'.status = "returned")
            => \/ pc = "finalizing"
               \/ pc = "tools" /\ callIdx > Len(fnCalls) /\ outputs = <<>>
               \/ pc = "followup" /\ callIdx > Len(fnCalls) /\ turnLog.followUps = 1]_vars

\* the second turn awaits its follow-up after the first one sent one and ended
C26_Witness ==
    /\ nTurns = 2
    /\ pc = "followup"
    /\ inFlight.kind = "followup"
    /\ user = Typed(LineHi)
    /\ unanswered = {}

\* C27 as stated: the start of a run with an override leaves no persisted
\* handle in the file, and a reset whose unlink is not rejected resolves on a
\* file that is gone.  Violated: main deletes the file at startup only when
\* CONVERSATION_ID is not set, so with an override the handle of an earlier
\* run stays in the file.
C27_Original ==
    [][/\ (pc = "main" /\ pc' = "prompt" /\ UsesForced(env.override)
             /\ file.exists /\ Truthy(Trim(file.content)))
            => ~file'.exists
       /\ (pc = "prompt" /\ pc' = "prompt" /\ shellOut'.kind = "started"
             /\ user'.read /\ Classify(user'.line) = "reset"
             /\ ~lastResolve'.forgetFailed)
            => lastResolve'.fileBefore = NoFile]_vars

\* how far sendAndStream has got
Rank(p) ==
    CASE p = "opening" -> 1 [] p = "retrying" -> 2 [] p = "streaming" -> 3
      [] p = "finalizing" -> 4 [] p = "tools" -> 5 [] p = "followup" -> 6
      [] OTHER -> 0

\* the requests the turn has sent to the responses endpoint
Sent == turnLog.opens + turnLog.followUps

\* C28: a turn never goes back to an earlier stage of sendAndStream; it sends
\* a request only when it starts (the first open), when the first open is
\* rejected (the retry) and when the tool loop ends (the follow-up), each at
\* most once, so that it opens the stream at most twice and sends at most one
\* follow-up; a rejected retry fails the turn; and after the follow-up the
\* turn ends with the next step and sends nothing more, whether or not the
\* follow-up's response holds tool invocations, which stay unanswered.
C28_BoundedRequests ==
    [][/\ (Running /\ Running') => Rank(pc') >= Rank(pc)
       /\ turnLog'.opens <= 2 /\ turnLog'.followUps <= 1
       /\ (inFlight' # inFlight /\ inFlight'.kind # "none")
            => /\ <<pc, pc'>> \in {<<"prompt", "opening">>, <<"opening", "retrying">>,
                                   <<"tools", "followup">>}
               /\ Sent' = IF pc = "prompt" THEN 1 ELSE Sent + 1
       /\ Sent' # Sent => inFlight' # inFlight /\ inFlight'.kind # "none"
       /\ pc = "retrying"
            => /\ inFlight' \in {inFlight, NoRequest}
               /\ pc' = "streaming" \/ (pc' = "prompt" /\ turnResult' = Threw)
       /\ pc = "followup"
            => /\ pc' = "prompt"
               /\ turnResult'.status = "returned"
               /\ inFlight' = NoRequest
               /\ fnCalls' = <<>> /\ outputs' = <<>>]_vars

\* a turn has ended after its follow-up, whose response held two tool
\* invocations: they were not dispatched
C28_Witness ==
    /\ pc = "prompt"
    /\ nTurns = 1
    /\ turnLog.opens = 1 /\ turnLog.followUps = 1 /\ ~turnLog.followFailed
    /\ Cardinality(unanswered) = 2
    /\ turnResult = Returned(RespId(1, "f"))
    /\ inFlight = NoRequest

\* the step handles a line that is a reset command
ResetRead == pc = "prompt" /\ user'.read /\ Classify(user'.line) = "reset"

\* C29: once the startup has resolved the handle, the handle main holds and
\* the handle file change only on a step that processes a reset.  A step that
\* starts a turn, any step of a turn and the step that ends it (by a return,
\* whatever identifier sendAndStream returns, or by a throw), and the step
\* that handles /id leave both as they are.
C29_HandleChangesOnlyOnReset ==
    [][/\ (Started /\ (conversationId' # conversationId \/ file' # file)) => ResetRead
       /\ (pc \in TurnPositions \/ pc' \in TurnPositions)
            => UNCHANGED <<conversationId, file, nConv>>
       /\ (pc = "prompt" /\ shellOut'.kind = "id" /\ user' = Typed(LineId))
            => UNCHANGED <<conversationId, file, nConv>>]_vars

\* the second turn of a run has swallowed the rejection of its follow-up and
\* returned the identifier of its streamed response: the handle and the file
\* are those of the startup
C29_Witness ==
    /\ pc = "prompt"
    /\ nTurns = 2
    /\ turnLog.followFailed
    /\ turnResult = Returned(RespId(2, "s"))
    /\ conversationId = ConvId(1)
    /\ file = FileOf(ConvId(1))
    /\ nConv = 1
    /\ user = Typed(LineHi)

\* C30 as stated: in a run started without an override, whenever the shell
\* waits for input the handle file exists and its content equals the handle
\* held.  Violated: when the unlink of the startup is rejected and the file
\* holds a handle followed by white space, the handle held is the trimmed
\* content.
C30_Original ==
    (pc = "prompt" /\ NoOverride(env))
      => (file.exists /\ file.content = conversationId)

\* C30: in a run started without an override, whenever the shell waits for
\* input the handle held is not empty, the handle file exists and its
\* content, trimmed, is the handle held; when the last resolve created the
\* handle, the content is the handle itself.
C30_FileHoldsHandle ==
    (pc = "prompt" /\ NoOverride(env))
      => /\ Truthy(conversationId)
         /\ file.exists
         /\ Trim(file.content) = conversationId
         /\ lastResolve.created => file.content = conversationId

\* after the startup, a turn and a reset, in a run without an override
C30_Witness ==
    /\ pc = "prompt"
    /\ env.override = Unset
    /\ nTurns = 1
    /\ nConv = 2
    /\ shellOut = Said("started", ConvId(2))
    /\ conversationId = ConvId(2)
    /\ file = FileOf(ConvId(2))

====
